---- MODULE Spec2Model ----
(***************************************************************************)
(* Nested cross-validation for a GNN regressor                             *)
(* (src/nested_cross_validation_gnn.ipynb).                                *)
(*                                                                         *)
(* Four specifications share this module:                                  *)
(*   Spec        one run of nested_cv_experiment(config): the outer fold   *)
(*               loop, the optuna study of each fold with its trials       *)
(*               (cv_objective), the final retraining and the test pass.   *)
(*   FairSpec    Spec, given that every call the run makes returns.        *)
(*   LoaderSpec  train_one_epoch / validate / test as functions of the     *)
(*               batches a DataLoader yields.                              *)
(*   KFoldSpec   KFold(n_splits, shuffle=True).split(range(n)) for every   *)
(*               order the shuffle can produce.                            *)
(*                                                                         *)
(* The GNN, the loss values it produces and the shuffles of KFold are      *)
(* outside the notebook: predictions are chosen nondeterministically from  *)
(* PredVals; KFoldSpec takes any permutation for a shuffle, Spec the order *)
(* the seeded generator produces.  Real numbers are exact                  *)
(* rationals <<numerator, denominator>> in lowest terms.                   *)
(***************************************************************************)
EXTENDS Integers, Sequences, FiniteSets, TLC

(***************************************************************************)
(* Bounds of the model.                                                    *)
(***************************************************************************)
MaxN == 5            \* len(dataset) ranges over 1..MaxN
MaxKOuter == 2       \* config['k_outer'] ranges over 2..MaxKOuter
MaxKInner == 3       \* config['k_inner'] ranges over 2..MaxKInner
MaxEpochs == 2       \* config['num_epochs'] ranges over 1..MaxEpochs
MaxSamples == 4      \* LoaderSpec: a loader holds 1..MaxSamples samples
MaxBatchSize == 2    \* LoaderSpec: batch_size of the loader, 1..MaxBatchSize

PredVals == {0, 1}   \* values a prediction or a target takes
\* values of config['n_trials']: below and at the 2 of study.optimize
NTrialsCfg == {1, 2}
\* pairs <<lr, weight_decay>> the two trial.suggest_float calls return
ParamVals == {<<1, 2>>, <<2, 1>>}

(***************************************************************************)
(* Program constants.                                                      *)
(***************************************************************************)
BATCH_SIZE == 32     \* batch_size=32 of every DataLoader of the experiment
RANDOM_STATE_OUTER == 22   \* KFold(n_splits=k_outer, shuffle=True, random_state=22)
RANDOM_STATE_INNER == 0    \* KFold(n_splits=k_inner, shuffle=True, random_state=0)
N_TRIALS_USED == 2   \* study.optimize(cv_objective, n_trials=2, ...)

(***************************************************************************)
(* Exact rational arithmetic for the float computations.                   *)
(***************************************************************************)
Abs(x) == IF x < 0 THEN -x ELSE x

RECURSIVE GCD(_, _)
GCD(a, b) == IF b = 0 THEN a ELSE GCD(b, a % b)

\* the rational n/d (d # 0) in lowest terms with a positive denominator
Rat(n, d) ==
    LET g == GCD(Abs(n), Abs(d))
        s == IF d < 0 THEN -1 ELSE 1
    IN  <<(s * n) \div g, (s * d) \div g>>

RZero == <<0, 1>>
RInt(i) == <<i, 1>>
RAdd(a, b) == Rat(a[1] * b[2] + b[1] * a[2], a[2] * b[2])
RMulInt(a, i) == Rat(a[1] * i, a[2])
RDivInt(a, i) == Rat(a[1], a[2] * i)
RLess(a, b) == a[1] * b[2] < b[1] * a[2]
RLeq(a, b) == a[1] * b[2] <= b[1] * a[2]

RECURSIVE RSum(_)
RSum(s) == IF s = <<>> THEN RZero ELSE RAdd(s[1], RSum(Tail(s)))

\* mutant of np_mean: the sum, not divided by the length
np_mean_sum(s) == RSum(s)

\* np.mean of a non-empty list of floats
np_mean(s) == RDivInt(RSum(s), Len(s))

(***************************************************************************)
(* Sequences and sets of dataset indices.                                  *)
(***************************************************************************)
Min(S) == CHOOSE x \in S : \A y \in S : x <= y

\* the elements of a set of integers in ascending order (numpy index arrays
\* returned by KFold.split are ascending)
RECURSIVE SortedSeq(_)
SortedSeq(S) == IF S = {} THEN <<>> ELSE <<Min(S)>> \o SortedSeq(S \ {Min(S)})

Range(s) == {s[i] : i \in 1..Len(s)}

\* all orders np.random.RandomState(seed).shuffle can leave arange(n) in
Perms(n) == {p \in [1..n -> 0..(n - 1)] : \A i, j \in 1..n : i # j => p[i] # p[j]}

\* np.random.RandomState(seed).shuffle(indices) of indices = np.arange(n),
\* 1 <= n <= 10: the order the Mersenne Twister seeded with seed leaves the
\* indices in, for the two seeds of the notebook
RandomState_shuffle(seed, n) ==
    LET seed_22 == << <<0>>,
                      <<0, 1>>,
                      <<2, 0, 1>>,
                      <<3, 2, 0, 1>>,
                      <<1, 2, 3, 0, 4>>,
                      <<1, 2, 3, 0, 4, 5>>,
                      <<1, 2, 3, 0, 6, 4, 5>>,
                      <<1, 3, 2, 7, 0, 6, 4, 5>>,
                      <<8, 1, 3, 2, 6, 0, 7, 4, 5>>,
                      <<2, 1, 9, 6, 3, 7, 0, 8, 4, 5>> >>
        seed_0 ==  << <<0>>,
                      <<1, 0>>,
                      <<2, 1, 0>>,
                      <<2, 3, 1, 0>>,
                      <<2, 0, 1, 3, 4>>,
                      <<5, 2, 1, 3, 0, 4>>,
                      <<6, 2, 1, 3, 0, 5, 4>>,
                      <<6, 2, 1, 7, 3, 0, 5, 4>>,
                      <<7, 2, 1, 4, 8, 6, 3, 0, 5>>,
                      <<2, 8, 4, 9, 1, 6, 7, 3, 0, 5>> >>
    IN  IF seed = RANDOM_STATE_OUTER THEN seed_22[n] ELSE seed_0[n]

(***************************************************************************)
(* DataLoader: the samples of a dataset in batches of batch_size, the last *)
(* batch holding the remainder.  A sample is observed as the pair          *)
(* <<pred, y>> of the model's prediction for it and its target.            *)
(***************************************************************************)
RECURSIVE DataLoader(_, _)
DataLoader(samples, batch_size) ==
    IF Len(samples) <= batch_size
    THEN IF samples = <<>> THEN <<>> ELSE <<samples>>
    ELSE <<SubSeq(samples, 1, batch_size)>>
         \o DataLoader(SubSeq(samples, batch_size + 1, Len(samples)), batch_size)

Sq(x) == x * x

RECURSIVE SumSqErr(_)
SumSqErr(batch) ==
    IF batch = <<>> THEN 0
    ELSE Sq(batch[1][1] - batch[1][2]) + SumSqErr(Tail(batch))

\* loss_fn = MSELoss(): the mean over the batch of (pred - y)^2
MSELoss(batch) == Rat(SumSqErr(batch), Len(batch))

\* data.num_graphs
num_graphs(batch) == Len(batch)

(***************************************************************************)
(* train_one_epoch: the loop over the batches with its two accumulators.   *)
(***************************************************************************)
\* mutant of running_loss_add: the batch loss is not weighted by its size
running_loss_add_unweighted(running_loss, loss, n) == RAdd(running_loss, loss)

\* running_loss += float(loss) * data.num_graphs
running_loss_add(running_loss, loss, n) == RAdd(running_loss, RMulInt(loss, n))

RECURSIVE train_one_epoch_loop(_, _, _)
train_one_epoch_loop(loader, running_loss, num_data) ==
    IF loader = <<>>
    THEN [running_loss |-> running_loss, num_data |-> num_data]
    ELSE train_one_epoch_loop(Tail(loader),
             running_loss_add(running_loss, MSELoss(loader[1]), num_graphs(loader[1])),
             num_data + num_graphs(loader[1]))

\* an exception, or a returned float
Raised(e) == [exc |-> e, val |-> RZero]
Returned(v) == [exc |-> "none", val |-> v]

train_one_epoch(loader) ==
    LET acc == train_one_epoch_loop(loader, RZero, 0)
    IN  IF acc.num_data = 0 THEN Raised("ZeroDivisionError")
        ELSE Returned(RDivInt(acc.running_loss, acc.num_data))

(***************************************************************************)
(* validate: the same accumulation, without an optimizer step.             *)
(***************************************************************************)
RECURSIVE validate_loop(_, _, _)
validate_loop(loader, valid_loss, num_data) ==
    IF loader = <<>>
    THEN [valid_loss |-> valid_loss, num_data |-> num_data]
    ELSE validate_loop(Tail(loader),
             RAdd(valid_loss, RMulInt(MSELoss(loader[1]), num_graphs(loader[1]))),
             num_data + num_graphs(loader[1]))

validate(loader) ==
    LET acc == validate_loop(loader, RZero, 0)
    IN  IF acc.num_data = 0 THEN Raised("ZeroDivisionError")
        ELSE Returned(RDivInt(acc.valid_loss, acc.num_data))

(***************************************************************************)
(* test: the rows <<pred, y>> of all batches are stacked, then             *)
(* mean_squared_error is applied to stacked_output[1] and                  *)
(* stacked_output[0], which are the second and the first ROW.              *)
(***************************************************************************)
RECURSIVE torch_cat(_)
torch_cat(output) == IF output = <<>> THEN <<>> ELSE output[1] \o torch_cat(Tail(output))

\* sklearn.metrics.mean_squared_error(y_true, y_pred) of two vectors of equal length
mean_squared_error(y_true, y_pred) ==
    Rat(SumSqErr([j \in 1..Len(y_true) |-> <<y_true[j], y_pred[j]>>]), Len(y_true))

test(loader) ==
    LET stacked_output == torch_cat(loader)
    IN  IF loader = <<>> THEN Raised("RuntimeError")
        ELSE IF Len(stacked_output) < 2 THEN Raised("IndexError")
        ELSE Returned(mean_squared_error(stacked_output[2], stacked_output[1]))

(***************************************************************************)
(* sklearn KFold(n_splits, shuffle=True, random_state=seed).               *)
(***************************************************************************)
\* mutant of fold_sizes: the remainder n % n_splits is dropped
fold_sizes_floor(n, n_splits) == [i \in 0..(n_splits - 1) |-> n \div n_splits]

\* mutant of fold_sizes: the whole remainder goes to the first fold
fold_sizes_first(n, n_splits) ==
    [i \in 0..(n_splits - 1) |-> (n \div n_splits) + (IF i = 0 THEN n % n_splits ELSE 0)]

\* mutant of fold_sizes: the remainder goes to the last folds, not the first
fold_sizes_last(n, n_splits) ==
    [i \in 0..(n_splits - 1) |->
        (n \div n_splits) + (IF i >= n_splits - (n % n_splits) THEN 1 ELSE 0)]

\* fold_sizes = full(n_splits, n // n_splits); fold_sizes[:n % n_splits] += 1
fold_sizes(n, n_splits) ==
    [i \in 0..(n_splits - 1) |-> (n \div n_splits) + (IF i < n % n_splits THEN 1 ELSE 0)]

RECURSIVE fold_start(_, _, _)
fold_start(n, n_splits, i) ==
    IF i = 0 THEN 0
    ELSE fold_start(n, n_splits, i - 1) + fold_sizes(n, n_splits)[i - 1]

\* the i-th (from 0) pair (train_index, test_index) of split(range(n)), the
\* shuffled indices being the sequence perm
KFold_split_i(perm, n, n_splits, i) ==
    LET start == fold_start(n, n_splits, i)
        stop == start + fold_sizes(n, n_splits)[i]
        test_index == {perm[j] : j \in (start + 1)..stop}
    IN  [train |-> (0..(n - 1)) \ test_index, test |-> test_index]

\* mutant of KFold_split: the last split is not yielded
KFold_split_short(perm, n, n_splits) ==
    [i \in 1..(n_splits - 1) |-> KFold_split_i(perm, n, n_splits, i - 1)]

\* list(KFold(...).split(range(n)))
KFold_split(perm, n, n_splits) ==
    [i \in 1..n_splits |-> KFold_split_i(perm, n, n_splits, i - 1)]

\* KFold.__init__ and KFold.split raise ValueError for these arguments
KFold_raises(n, n_splits) == n_splits < 2 \/ n_splits > n

\* torch.utils.data.Subset(data, indices): the items of data (a sequence of
\* sample ids) at the given positions (from 0), in ascending position order
Subset(data, indices) ==
    LET idx == SortedSeq(indices)
    IN  [j \in 1..Len(idx) |-> data[idx[j] + 1]]

(***************************************************************************)
(* The model, the optimizer and the optuna study.                          *)
(***************************************************************************)
\* torch.optim.Adam(model.parameters(), lr=..., weight_decay=...): a new
\* optimizer, which has taken no step
Adam(lr, weight_decay) == [lr |-> lr, weight_decay |-> weight_decay, step |-> 0]

\* mutant of reset_parameters: the parameters are kept
reset_parameters_noop(m) == m

\* model.reset_parameters(): fresh parameters; the train/eval mode stays
reset_parameters(m) == [m EXCEPT !.trained_on = {}, !.steps = 0]

\* mutant of model_train: the mode is left as it was
model_train_noop(m) == m

\* model.train(): training mode, parameters untouched
model_train(m) == [m EXCEPT !.mode = "train"]

\* mutant of model_eval: the call also re-initialises the parameters
model_eval_reinit(m) == [m EXCEPT !.mode = "eval", !.trained_on = {}, !.steps = 0]

\* model.eval(): evaluation mode, parameters untouched
model_eval(m) == [m EXCEPT !.mode = "eval"]

\* mutant of best_trial: the trial run last
best_trial_last(study) == study[Len(study)]

\* study.best_trial: the first trial of minimum value (direction="minimize")
best_trial(study) ==
    LET i == CHOOSE i \in 1..Len(study) :
                 /\ \A j \in 1..Len(study) : RLeq(study[i].value, study[j].value)
                 /\ \A j \in 1..(i - 1) : RLess(study[i].value, study[j].value)
    IN  study[i]

\* the target of a sample of the dataset
Target(id) == id % 2

(***************************************************************************)
(* State.                                                                  *)
(***************************************************************************)
VARIABLES
    N,               \* len(config['dataset']), also len of the global dataset
    k_outer,         \* config['k_outer']
    k_inner,         \* config['k_inner']
    n_trials,        \* config['n_trials']
    num_epochs,      \* config['num_epochs']
    cv_outer,        \* the splits KFold(k_outer, random_state=22) yields
    inner_split,     \* n |-> the splits KFold(k_inner, random_state=0) yields
                     \*       for range(n); <<>> before the first call with n
    pc,              \* position of the run
    fold,            \* index of the outer fold
    train_ids,       \* outer train index set
    test_ids,        \* outer test index set
    eval_loss,       \* per-fold test metrics
    study,           \* finished trials of the fold's study: params and value
    timed_out,       \* study.optimize returned on its timeout
    n_calls,         \* invocations of cv_objective in this outer fold
    fold_idx,        \* index of the inner fold
    inner_cv_loss,   \* validation losses of the trial so far
    train_idx,       \* inner train index set
    valid_idx,       \* inner validation index set
    train_samples,   \* dataset samples of the inner train_data
    valid_samples,   \* dataset samples of the inner valid_data
    train_ctx,       \* caller of train(): "inner" or "final"
    loader_samples,  \* dataset samples of the train_loader given to train()
    ep,              \* epoch counter of train()
    model,           \* mode, samples trained on and steps since the last reset
    optimizer,       \* hyperparameters and number of steps taken
    best_params,     \* study.best_trial.params
    tested_on,       \* dataset samples of the test_loader given to test()
    metric_rows,     \* dataset samples whose rows mean_squared_error received
    calls,           \* calls of train, validate, test and epochs run, counted
                     \* within the current outer fold
    run_calls,       \* the same and the trials completed, summed over the
                     \* outer folds of the run that are done
    result,          \* the reported mean, once reported
    error,           \* the exception that ended the run, or "none"
    ld_samples,      \* LoaderSpec: the rows <<pred, y>> of the loader's dataset
    ld_batch_size,   \* LoaderSpec: batch_size of the loader
    ld_call,         \* LoaderSpec: function applied last
    ld_ret,          \* LoaderSpec: what it returned or raised
    kf_n,            \* KFoldSpec: number of indices to split
    kf_n_splits,     \* KFoldSpec: n_splits
    kf_perm,         \* KFoldSpec: the shuffled indices
    kf_state,        \* KFoldSpec: "new", "split" or "ValueError"
    kf_split         \* KFoldSpec: the splits yielded

cfgVars == <<N, k_outer, k_inner, n_trials, num_epochs, cv_outer>>
outerVars == <<fold, train_ids, test_ids, eval_loss, tested_on, metric_rows, result,
               run_calls>>
searchVars == <<study, timed_out, n_calls, best_params>>
innerVars == <<fold_idx, inner_cv_loss, train_idx, valid_idx, train_samples, valid_samples>>
trainVars == <<train_ctx, loader_samples, ep>>
ldVars == <<ld_samples, ld_batch_size, ld_call, ld_ret>>
kfVars == <<kf_n, kf_n_splits, kf_perm, kf_state, kf_split>>
fnVars == <<ldVars, kfVars>>
vars == <<cfgVars, inner_split, pc, outerVars, searchVars, innerVars, trainVars,
          model, optimizer, calls, error, fnVars>>

\* the dataset as the sequence of its sample ids 0..N-1
dataset == [i \in 1..N |-> i - 1]

NoCalls == [train |-> 0, validate |-> 0, test |-> 0, epochs |-> 0]

NoRunCalls == [train |-> 0, validate |-> 0, test |-> 0, epochs |-> 0, trials |-> 0]

NoParams == [lr |-> 0, weight_decay |-> 0]

\* the locals of cv_objective outside a call of it
InnerIdle ==
    /\ fold_idx = 0
    /\ inner_cv_loss = <<>>
    /\ train_idx = {}
    /\ valid_idx = {}
    /\ train_samples = {}
    /\ valid_samples = {}

ExperimentIdle ==
    /\ inner_split = [n \in 0..MaxN |-> <<>>]
    /\ pc = "start"
    /\ fold = 0
    /\ train_ids = {}
    /\ test_ids = {}
    /\ eval_loss = <<>>
    /\ study = <<>>
    /\ timed_out = FALSE
    /\ n_calls = 0
    /\ InnerIdle
    /\ train_ctx = "none"
    /\ loader_samples = {}
    /\ ep = 0
    /\ model = [mode |-> "train", trained_on |-> {}, steps |-> 0]
    /\ optimizer = Adam(0, 0)
    /\ best_params = NoParams
    /\ tested_on = {}
    /\ metric_rows = {}
    /\ calls = NoCalls
    /\ run_calls = NoRunCalls
    /\ result = RZero
    /\ error = "none"

LoaderIdle ==
    /\ ld_samples = <<>>
    /\ ld_batch_size = BATCH_SIZE
    /\ ld_call = "none"
    /\ ld_ret = Returned(RZero)

KFoldIdle ==
    /\ kf_n = 0
    /\ kf_n_splits = 0
    /\ kf_perm = <<>>
    /\ kf_state = "new"
    /\ kf_split = <<>>

\* the configuration outside a run of the experiment
ConfigIdle ==
    /\ N = 0
    /\ k_outer = 0
    /\ k_inner = 0
    /\ n_trials = 0
    /\ num_epochs = 0
    /\ cv_outer = <<>>

(***************************************************************************)
(* Init: the configuration, and the outcome of the seeded outer shuffle.   *)
(***************************************************************************)
Init ==
    /\ N \in 1..MaxN
    /\ k_outer \in 2..MaxKOuter
    /\ k_inner \in 2..MaxKInner
    /\ n_trials \in NTrialsCfg
    /\ num_epochs \in 1..MaxEpochs
    /\ IF KFold_raises(N, k_outer)
       THEN cv_outer = <<>>
       ELSE cv_outer = KFold_split(RandomState_shuffle(RANDOM_STATE_OUTER, N), N, k_outer)
    /\ ExperimentIdle
    /\ LoaderIdle
    /\ KFoldIdle

\* mutant of Abort: the failed outer fold is skipped and the loop goes on
Abort_skip(e) ==
    /\ error' = e
    /\ pc' = "outer_fold"

\* an exception is raised: nothing in nested_cv_experiment catches it
Abort(e) ==
    /\ error' = e
    /\ pc' = "aborted"

(***************************************************************************)
(* nested_cv_experiment                                                    *)
(***************************************************************************)
\* cv_outer = KFold(n_splits=k_outer, ...); eval_loss = []; first next() of
\* cv_outer.split(range(len(dataset)))
nested_cv_experiment_begin ==
    /\ pc = "start"
    /\ IF KFold_raises(N, k_outer)
       THEN Abort("KFold_ValueError")
       ELSE pc' = "outer_fold" /\ error' = error
    /\ UNCHANGED <<cfgVars, inner_split, outerVars, searchVars, innerVars, trainVars,
                   model, optimizer, calls, fnVars>>

\* head of the outer loop body: the two Subsets, the reset, the new study
outer_fold_begin ==
    /\ pc = "outer_fold"
    /\ fold < Len(cv_outer)
    /\ train_ids' = cv_outer[fold + 1].train
    /\ test_ids' = cv_outer[fold + 1].test
    /\ model' = reset_parameters(model)
    /\ study' = <<>>
    /\ timed_out' = FALSE
    /\ n_calls' = 0
    /\ calls' = NoCalls
    /\ pc' = "optimize"
    /\ UNCHANGED <<cfgVars, inner_split, fold, eval_loss, tested_on, metric_rows, result,
                   run_calls, best_params, innerVars, trainVars, optimizer, error, fnVars>>

\* the predictions of one pass over the samples ids (a set): the network
\* answers a value of PredVals for each sample of the pass
Predictions(ids) == [ids -> PredVals]

\* the rows <<pred, y>> a pass over the samples ids (a sequence) observes,
\* pred being the model's prediction for each sample
Rows(ids, pred) == [j \in 1..Len(ids) |-> <<pred[ids[j]], Target(ids[j])>>]

(***************************************************************************)
(* study.optimize(cv_objective, n_trials=2, timeout=timeout_optuna)        *)
(***************************************************************************)
\* a trial starts: cv_objective up to the first next() of fold.split(...).
\* KFold is built before the hyperparameters are drawn; split raises after
\* the optimizer is built.
cv_objective_begin ==
    /\ pc = "optimize"
    /\ Len(study) < N_TRIALS_USED
    /\ n_calls' = n_calls + 1
    /\ LET n == Len(Subset(dataset, train_ids))
       IN  IF k_inner < 2
           THEN /\ Abort("KFold_ValueError")
                /\ UNCHANGED <<optimizer, inner_split, fold_idx, inner_cv_loss>>
           ELSE /\ \E suggested \in ParamVals :
                       optimizer' = Adam(suggested[1], suggested[2])
                /\ IF KFold_raises(n, k_inner)
                   THEN /\ Abort("KFold_ValueError")
                        /\ UNCHANGED <<inner_split, fold_idx, inner_cv_loss>>
                   ELSE /\ IF inner_split[n] # <<>>
                           THEN inner_split' = inner_split
                           ELSE inner_split' =
                                    [inner_split EXCEPT
                                        ![n] = KFold_split(RandomState_shuffle(RANDOM_STATE_INNER, n),
                                                           n, k_inner)]
                        /\ fold_idx' = 0
                        /\ inner_cv_loss' = <<>>
                        /\ pc' = "inner_fold"
                        /\ error' = error
    /\ UNCHANGED <<cfgVars, outerVars, study, timed_out, best_params, train_idx, valid_idx,
                   train_samples, valid_samples, trainVars, model, calls, fnVars>>

\* head of the inner loop body: the two Subsets of the GLOBAL dataset, the
\* loaders, the reset, and the call of train
inner_fold_begin ==
    /\ pc = "inner_fold"
    /\ fold_idx < Len(inner_split[Len(Subset(dataset, train_ids))])
    /\ LET split == inner_split[Len(Subset(dataset, train_ids))][fold_idx + 1]
       IN  /\ train_idx' = split.train
           /\ valid_idx' = split.test
           /\ train_samples' = Range(Subset(dataset, split.train))
           /\ valid_samples' = Range(Subset(dataset, split.test))
           /\ loader_samples' = Range(Subset(dataset, split.train))
    /\ model' = reset_parameters(model)
    /\ train_ctx' = "inner"
    /\ pc' = "train"
    /\ UNCHANGED <<cfgVars, inner_split, outerVars, searchVars, fold_idx, inner_cv_loss,
                   ep, optimizer, calls, error, fnVars>>

\* train(): model.train(), then the epoch loop
train_begin ==
    /\ pc = "train"
    /\ model' = model_train(model)
    /\ ep' = 0
    /\ calls' = [calls EXCEPT !.train = @ + 1]
    /\ pc' = "train_epoch"
    /\ UNCHANGED <<cfgVars, inner_split, outerVars, searchVars, innerVars, train_ctx,
                   loader_samples, optimizer, error, fnVars>>

\* one iteration of the epoch loop: train_one_epoch takes one optimizer
\* step per batch of the loader
train_epoch ==
    /\ pc = "train_epoch"
    /\ ep < num_epochs
    /\ LET loader == DataLoader(SortedSeq(loader_samples), BATCH_SIZE)
       IN  IF loader = <<>>
           THEN /\ Abort("ZeroDivisionError")
                /\ UNCHANGED <<model, optimizer, ep, calls>>
           ELSE /\ model' = [model EXCEPT !.trained_on = @ \cup loader_samples,
                                          !.steps = @ + Len(loader)]
                /\ optimizer' = [optimizer EXCEPT !.step = @ + Len(loader)]
                /\ ep' = ep + 1
                /\ calls' = [calls EXCEPT !.epochs = @ + 1]
                /\ pc' = pc
                /\ error' = error
    /\ UNCHANGED <<cfgVars, inner_split, outerVars, searchVars, innerVars, train_ctx,
                   loader_samples, fnVars>>

\* mutant of train_return: the epoch loop may stop after its first epoch
train_return_early ==
    /\ pc = "train_epoch"
    /\ ep >= 1
    /\ pc' = IF train_ctx = "inner" THEN "validate" ELSE "test"
    /\ UNCHANGED <<cfgVars, inner_split, outerVars, searchVars, innerVars, trainVars,
                   model, optimizer, calls, error, fnVars>>

\* train() returns to its caller
train_return ==
    /\ pc = "train_epoch"
    /\ ep = num_epochs
    /\ pc' = IF train_ctx = "inner" THEN "validate" ELSE "test"
    /\ UNCHANGED <<cfgVars, inner_split, outerVars, searchVars, innerVars, trainVars,
                   model, optimizer, calls, error, fnVars>>

\* loss_v = validate(model, valid_loader, loss_fn); inner_cv_loss.append(loss_v)
inner_validate ==
    /\ pc = "validate"
    /\ model' = model_eval(model)
    /\ calls' = [calls EXCEPT !.validate = @ + 1]
    /\ \E pred \in Predictions(valid_samples) :
          LET loss_v == validate(DataLoader(Rows(SortedSeq(valid_samples), pred), BATCH_SIZE))
          IN  IF loss_v.exc # "none"
              THEN /\ Abort(loss_v.exc)
                   /\ UNCHANGED <<inner_cv_loss, fold_idx>>
              ELSE /\ inner_cv_loss' = Append(inner_cv_loss, loss_v.val)
                   /\ fold_idx' = fold_idx + 1
                   /\ pc' = "inner_fold"
                   /\ error' = error
    /\ UNCHANGED <<cfgVars, inner_split, outerVars, searchVars, train_idx, valid_idx,
                   train_samples, valid_samples, trainVars, optimizer, fnVars>>

\* return np.mean(inner_cv_loss): the study records the trial, the locals of
\* cv_objective end with the call
cv_objective_return ==
    /\ pc = "inner_fold"
    /\ fold_idx = Len(inner_split[Len(Subset(dataset, train_ids))])
    /\ study' = Append(study, [params |-> [lr |-> optimizer.lr,
                                           weight_decay |-> optimizer.weight_decay],
                               value |-> np_mean(inner_cv_loss)])
    /\ pc' = "optimize"
    /\ fold_idx' = 0
    /\ inner_cv_loss' = <<>>
    /\ train_idx' = {}
    /\ valid_idx' = {}
    /\ train_samples' = {}
    /\ valid_samples' = {}
    /\ UNCHANGED <<cfgVars, inner_split, outerVars, timed_out, n_calls, best_params,
                   trainVars, model, optimizer, calls, error, fnVars>>

\* study.optimize returns after its n_trials trials
optimize_done ==
    /\ pc = "optimize"
    /\ Len(study) >= N_TRIALS_USED
    /\ pc' = "best"
    /\ UNCHANGED <<cfgVars, inner_split, outerVars, searchVars, innerVars, trainVars,
                   model, optimizer, calls, error, fnVars>>

\* study.optimize returns because the timeout has passed when the next
\* trial would start
optimize_timeout ==
    /\ pc = "optimize"
    /\ Len(study) < N_TRIALS_USED
    /\ timed_out' = TRUE
    /\ pc' = "best"
    /\ UNCHANGED <<cfgVars, inner_split, outerVars, study, n_calls, best_params,
                   innerVars, trainVars, model, optimizer, calls, error, fnVars>>

\* best_params, the optimizer built from them, the reset, the train_loader
\* and the call of train
retrain_begin ==
    /\ pc = "best"
    /\ IF study = <<>>
       THEN /\ Abort("best_trial_ValueError")
            /\ UNCHANGED <<best_params, optimizer, model, train_ctx, loader_samples>>
       ELSE /\ best_params' = best_trial(study).params
            /\ optimizer' = Adam(best_trial(study).params.lr,
                                 best_trial(study).params.weight_decay)
            /\ model' = reset_parameters(model)
            /\ loader_samples' = Range(Subset(dataset, train_ids))
            /\ train_ctx' = "final"
            /\ pc' = "train"
            /\ error' = error
    /\ UNCHANGED <<cfgVars, inner_split, outerVars, study, timed_out, n_calls, innerVars,
                   ep, calls, fnVars>>

\* indices of the rows of stacked_output given to mean_squared_error
mse_rows == {0, 1}

\* mse_fold = test(model, test_loader, loss_fn); eval_loss.append(mse_fold)
test_fold ==
    /\ pc = "test"
    /\ model' = model_eval(model)
    /\ calls' = [calls EXCEPT !.test = @ + 1]
    /\ tested_on' = Range(Subset(dataset, test_ids))
    /\ \E pred \in Predictions(test_ids) :
          LET test_data == Subset(dataset, test_ids)
              mse_fold == test(DataLoader(Rows(test_data, pred), BATCH_SIZE))
          IN  IF mse_fold.exc # "none"
              THEN /\ Abort(mse_fold.exc)
                   /\ UNCHANGED <<eval_loss, metric_rows, fold, run_calls>>
              ELSE /\ eval_loss' = Append(eval_loss, mse_fold.val)
                   /\ run_calls' = [train |-> run_calls.train + calls.train,
                                    validate |-> run_calls.validate + calls.validate,
                                    test |-> run_calls.test + calls.test + 1,
                                    epochs |-> run_calls.epochs + calls.epochs,
                                    trials |-> run_calls.trials + Len(study)]
                   /\ metric_rows' = {test_data[i + 1] : i \in mse_rows}
                   /\ fold' = fold + 1
                   /\ pc' = "outer_fold"
                   /\ error' = error
    /\ UNCHANGED <<cfgVars, inner_split, train_ids, test_ids, result, searchVars,
                   innerVars, trainVars, optimizer, fnVars>>

\* logger.info(f'Mean MSE across Outer CV: {np.mean(eval_loss)}')
report ==
    /\ pc = "outer_fold"
    /\ fold = Len(cv_outer)
    /\ result' = np_mean(eval_loss)
    /\ pc' = "done"
    /\ UNCHANGED <<cfgVars, inner_split, fold, train_ids, test_ids, eval_loss, tested_on,
                   metric_rows, run_calls, searchVars, innerVars, trainVars, model, optimizer, calls,
                   error, fnVars>>

Next ==
    \/ nested_cv_experiment_begin
    \/ outer_fold_begin
    \/ cv_objective_begin
    \/ inner_fold_begin
    \/ train_begin
    \/ train_epoch
    \/ train_return
    \/ inner_validate
    \/ cv_objective_return
    \/ optimize_done
    \/ optimize_timeout
    \/ retrain_begin
    \/ test_fold
    \/ report

Spec == Init /\ [][Next]_vars

\* the positions of a run that has not ended
Running == {"start", "outer_fold", "optimize", "inner_fold", "train", "train_epoch",
            "validate", "best", "test"}

\* the interpreter executes the next statement of a run that has not ended:
\* the position moves on, or the epoch loop goes round once more
Advance ==
    /\ pc \in Running
    /\ pc' \in Running \cup {"done", "aborted"}
    /\ ep' \in 0..MaxEpochs

\* every call made by the run returns (a batch step, a trial proposal), so
\* a run that has not ended does not stay where it is for ever
FairSpec == Spec /\ WF_<<pc, ep>>(Advance)

(***************************************************************************)
(* LoaderSpec: train_one_epoch, validate and test applied to a loader of   *)
(* 1..MaxSamples rows in batches of 1..MaxBatchSize.                       *)
(***************************************************************************)
RowSeqs == UNION {[1..m -> PredVals \X PredVals] : m \in 1..MaxSamples}

LoaderInit ==
    /\ ld_samples \in RowSeqs
    /\ ld_batch_size \in 1..MaxBatchSize
    /\ ld_call = "none"
    /\ ld_ret = Returned(RZero)
    /\ ConfigIdle
    /\ ExperimentIdle
    /\ KFoldIdle

ld_loader == DataLoader(ld_samples, ld_batch_size)

UnchangedByLoader ==
    UNCHANGED <<cfgVars, inner_split, pc, outerVars, searchVars, innerVars, trainVars,
                calls, error, kfVars, ld_samples, ld_batch_size>>

call_train_one_epoch ==
    /\ ld_call = "none"
    /\ ld_call' = "train_one_epoch"
    /\ ld_ret' = train_one_epoch(ld_loader)
    /\ model' = [model EXCEPT !.trained_on = @ \cup {i - 1 : i \in 1..Len(torch_cat(ld_loader))},
                              !.steps = @ + Len(ld_loader)]
    /\ optimizer' = [optimizer EXCEPT !.step = @ + Len(ld_loader)]
    /\ UnchangedByLoader

call_validate ==
    /\ ld_call = "none"
    /\ ld_call' = "validate"
    /\ ld_ret' = validate(ld_loader)
    /\ model' = model_eval(model)
    /\ optimizer' = optimizer
    /\ UnchangedByLoader

call_test ==
    /\ ld_call = "none"
    /\ ld_call' = "test"
    /\ ld_ret' = test(ld_loader)
    /\ model' = model_eval(model)
    /\ optimizer' = optimizer
    /\ UnchangedByLoader

LoaderNext ==
    \/ call_train_one_epoch
    \/ call_validate
    \/ call_test

LoaderSpec == LoaderInit /\ [][LoaderNext]_vars

(***************************************************************************)
(* KFoldSpec: list(KFold(n_splits, shuffle=True).split(range(n))) for      *)
(* every order the shuffle can produce.                                    *)
(***************************************************************************)
KFoldInit ==
    /\ kf_n \in 1..MaxN
    /\ kf_n_splits \in 1..MaxKInner
    /\ kf_perm \in Perms(kf_n)
    /\ kf_state = "new"
    /\ kf_split = <<>>
    /\ ConfigIdle
    /\ ExperimentIdle
    /\ LoaderIdle

UnchangedByKFold ==
    UNCHANGED <<cfgVars, inner_split, pc, outerVars, searchVars, innerVars, trainVars,
                model, optimizer, calls, error, ldVars, kf_n, kf_n_splits, kf_perm>>

kfold_split ==
    /\ kf_state = "new"
    /\ ~KFold_raises(kf_n, kf_n_splits)
    /\ kf_split' = KFold_split(kf_perm, kf_n, kf_n_splits)
    /\ kf_state' = "split"
    /\ UnchangedByKFold

kfold_raise ==
    /\ kf_state = "new"
    /\ KFold_raises(kf_n, kf_n_splits)
    /\ kf_split' = kf_split
    /\ kf_state' = "ValueError"
    /\ UnchangedByKFold

KFoldNext ==
    \/ kfold_split
    \/ kfold_raise

KFoldSpec == KFoldInit /\ [][KFoldNext]_vars

(***************************************************************************)
(* Properties.                                                             *)
(***************************************************************************)
\* the samples of the outer train-subset and of the outer test-subset
OuterTrainSamples == Range(Subset(dataset, train_ids))
OuterTestSamples == Range(Subset(dataset, test_ids))

InInnerFold == pc \in {"train", "train_epoch", "validate"} /\ train_ctx = "inner"
InFinalTraining == pc \in {"train", "train_epoch", "test"} /\ train_ctx = "final"

\* v is the arithmetic mean of the non-empty sequence s of rationals
IsMeanOf(v, s) == RMulInt(v, Len(s)) = RSum(s)

\* C1: in every inner fold of every trial, the samples trained on and the
\* samples validated on all belong to the outer fold's train-subset; none
\* belongs to its test-subset.
C1_InnerFoldsWithinTrainSubset ==
    InInnerFold =>
        /\ (train_samples \cup valid_samples) \subseteq OuterTrainSamples
        /\ (train_samples \cup valid_samples) \cap OuterTestSamples = {}

\* C2: test returns the mean squared error over all M >= 1 rows of the
\* loader: (1/M) * sum of (pred_i - y_i)^2.
C2_TestReturnsMSE ==
    ld_call = "test" =>
        ld_ret = Returned(Rat(SumSqErr(ld_samples), Len(ld_samples)))

\* C3: in every outer fold the number of invocations of the inner-CV
\* objective never exceeds the configured n_trials.
C3_TrialsWithinConfigured == n_calls <= n_trials

\* C4: after outer fold i has completed the metric list has i+1 entries; a
\* completed run holds exactly k_outer metrics and reports their arithmetic
\* mean.
C4_KOuterMetricsAndMean ==
    /\ pc = "outer_fold" => Len(eval_loss) = fold
    /\ pc \in {"optimize", "inner_fold", "train", "train_epoch", "validate", "best", "test"}
          => Len(eval_loss) = fold
    /\ pc = "done" =>
          /\ Len(eval_loss) = k_outer
          /\ IsMeanOf(result, eval_loss)

\* a completed run whose two first metrics differ
C4_Witness ==
    /\ pc = "done"
    /\ Len(eval_loss) = k_outer
    /\ eval_loss[1] # eval_loss[2]
    /\ result # eval_loss[1]

\* C5: every call of the inner-CV objective that returns, returns the
\* arithmetic mean of exactly k_inner validation losses, one per inner fold.
C5_ObjectiveIsMeanOfKInner ==
    [][(pc = "inner_fold" /\ pc' = "optimize") =>
          /\ Len(inner_cv_loss) = k_inner
          /\ fold_idx = k_inner
          /\ Len(study') = Len(study) + 1
          /\ IsMeanOf(study'[Len(study')].value, inner_cv_loss)]_vars

\* a trial has returned the mean 1/2 of unequal losses
C5_Witness ==
    /\ pc = "optimize"
    /\ Len(study) >= 1
    /\ study[1].value = <<1, 2>>

\* C6: for K >= 2 and N >= K the K test index sets of the split are pairwise
\* disjoint, their union is 0..N-1, and every train index set is the
\* complement of its test index set.
C6_KFoldPartition ==
    kf_state = "split" =>
        /\ Len(kf_split) = kf_n_splits
        /\ \A i, j \in 1..Len(kf_split) :
               i # j => kf_split[i].test \cap kf_split[j].test = {}
        /\ UNION {kf_split[i].test : i \in 1..Len(kf_split)} = 0..(kf_n - 1)
        /\ \A i \in 1..Len(kf_split) :
               /\ kf_split[i].train \cup kf_split[i].test = 0..(kf_n - 1)
               /\ kf_split[i].train \cap kf_split[i].test = {}

\* a split of N indices into K folds of unequal sizes, not in index order
C6_Witness ==
    /\ kf_state = "split"
    /\ kf_n % kf_n_splits # 0
    /\ kf_n_splits >= 2
    /\ kf_perm[1] # 0

\* C7: the learning rate and weight decay of the optimizer of the final
\* retraining are those of a trial of this fold's study whose value is
\* less than or equal to the value of every trial of the study.
C7_RetrainUsesBestTrial ==
    InFinalTraining =>
        \E i \in 1..Len(study) :
            /\ study[i].params.lr = optimizer.lr
            /\ study[i].params.weight_decay = optimizer.weight_decay
            /\ \A j \in 1..Len(study) : RLeq(study[i].value, study[j].value)

\* the final retraining runs with the parameters of the second trial, which
\* differ from those of the first and scored strictly better
C7_Witness ==
    /\ pc = "train_epoch"
    /\ train_ctx = "final"
    /\ Len(study) = 2
    /\ RLess(study[2].value, study[1].value)
    /\ study[2].params # study[1].params
    /\ optimizer.lr = study[2].params.lr

\* the sample-count-weighted average of the per-batch losses of a loader
WeightedMean(loader) ==
    RDivInt(RSum([b \in 1..Len(loader) |-> RMulInt(MSELoss(loader[b]), Len(loader[b]))]),
            Len(torch_cat(loader)))

\* the unweighted mean of the per-batch losses
BatchMean(loader) == RDivInt(RSum([b \in 1..Len(loader) |-> MSELoss(loader[b])]), Len(loader))

\* C8: train_one_epoch and validate return sum_b(loss_b * n_b) / sum_b(n_b)
\* over the batches b of the loader, also when the batch sizes are unequal.
C8_SampleWeightedMean ==
    ld_call \in {"train_one_epoch", "validate"} =>
        ld_ret = Returned(WeightedMean(ld_loader))

\* train_one_epoch has run over batches of sizes 2 and 1 and its result is
\* not the unweighted mean of the two batch losses
C8_Witness ==
    /\ ld_call = "train_one_epoch"
    /\ Len(ld_loader) = 2
    /\ Len(ld_loader[1]) = 2
    /\ Len(ld_loader[2]) = 1
    /\ ld_ret.exc = "none"
    /\ ld_ret.val # BatchMean(ld_loader)

\* C9: once an outer fold is done, its final model was trained on exactly
\* the fold's train-subset, its metric was computed on exactly the fold's
\* test-subset, and the two sets are disjoint.
C9_RetrainAndTestSets ==
    (pc = "outer_fold" /\ fold > 0) =>
        /\ model.trained_on = OuterTrainSamples
        /\ metric_rows = OuterTestSamples
        /\ model.trained_on \cap metric_rows = {}

\* C10: a validation or test set of zero samples never reaches the division
\* of the mean: no pass runs over an empty set, no ZeroDivisionError is
\* raised, and the ValueError of KFold that reports the impossible split is
\* raised before any training step of the run.
C10_EmptyFoldRejectedBeforeTraining ==
    /\ error # "ZeroDivisionError"
    /\ pc = "validate" => valid_samples # {}
    /\ pc = "test" => OuterTestSamples # {}
    /\ error = "KFold_ValueError" =>
          /\ fold = 0
          /\ calls.epochs = 0
          /\ calls.train = 0
          /\ model.steps = 0

\* the inner split was rejected: the outer split was valid, the first trial
\* of the first outer fold raised, nothing had been trained
C10_Witness ==
    /\ error = "KFold_ValueError"
    /\ ~KFold_raises(N, k_outer)
    /\ n_calls = 1
    /\ k_inner > Len(Subset(dataset, train_ids))

\* C11: when study.optimize has returned on its timeout with fewer trials
\* than its budget, a timeout before the first trial included, the outer
\* fold does not fail: the next step selects the best trial found so far
\* and starts the final retraining with it.
C11_TimeoutUsesBestSoFar ==
    [][(pc = "best" /\ timed_out) =>
          /\ pc' = "train"
          /\ error' = "none"
          /\ train_ctx' = "final"
          /\ best_params' = best_trial(study).params]_vars

\* C12: a failure of any step of an outer fold ends the run: the failing
\* step records no metric and does not advance the fold, no step follows
\* it, and a mean is reported only over k_outer metrics of a run without
\* failure.
C12_FailureAbortsExperiment ==
    [][/\ error = "none"
       /\ error' # "none" =>
             /\ pc' = "aborted"
             /\ fold' = fold
             /\ eval_loss' = eval_loss
             /\ result' = result
       /\ pc' = "done" =>
             /\ error' = "none"
             /\ Len(eval_loss') = k_outer
             /\ IsMeanOf(result', eval_loss')]_vars

\* the second outer fold failed after the first had recorded its metric:
\* the run stopped there with one metric and no reported mean
C12_Witness ==
    /\ pc = "aborted"
    /\ error # "none"
    /\ fold = 1
    /\ Len(eval_loss) = 1
    /\ k_outer = 2
    /\ result = RZero

\* floor(n / k) and ceil(n / k)
FloorDiv(n, k) == n \div k
CeilDiv(n, k) == (n + k - 1) \div k

\* C13: for N >= K >= 2 every test fold of the split has floor(N/K) or
\* ceil(N/K) indices and its train set the remaining N minus that many; with
\* N = 840, k_outer = 5, k_inner = 3 every outer fold has 672 train and 168
\* test samples and every inner split of the pool of 672 has 448 train and
\* 224 validation samples.
C13_FoldSizes ==
    /\ kf_state = "split" =>
          \A i \in 1..Len(kf_split) :
              /\ Cardinality(kf_split[i].test) \in
                     {FloorDiv(kf_n, kf_n_splits), CeilDiv(kf_n, kf_n_splits)}
              /\ Cardinality(kf_split[i].train) = kf_n - Cardinality(kf_split[i].test)
    /\ \A i \in 0..4 : /\ fold_sizes(840, 5)[i] = 168
                       /\ 840 - fold_sizes(840, 5)[i] = 672
    /\ \A i \in 0..2 : /\ fold_sizes(672, 3)[i] = 224
                       /\ 672 - fold_sizes(672, 3)[i] = 448

\* a split into folds of two different sizes, floor(N/K) and ceil(N/K)
C13_Witness ==
    /\ kf_state = "split"
    /\ kf_n_splits = 3
    /\ kf_n = 5
    /\ Cardinality(kf_split[1].test) = 2
    /\ Cardinality(kf_split[3].test) = 1
    /\ Cardinality(kf_split[3].train) = 4

\* the number of optimizer steps of num_epochs epochs over the samples ids
StepsOfTraining(ids) == num_epochs * Len(DataLoader(SortedSeq(ids), BATCH_SIZE))

\* C14: within an outer fold the search starts from a reset model; the final
\* training starts after all the trials of the search, from parameters
\* reset since the last training step and from an optimizer that has taken
\* no step; the test follows the final training on the outer train-subset
\* and nothing else.
C14_OuterFoldOrder ==
    /\ (pc = "optimize" /\ n_calls = 0) =>
          /\ model.trained_on = {}
          /\ model.steps = 0
          /\ calls = NoCalls
    /\ pc \in {"optimize", "inner_fold", "best"} =>
          /\ calls.test = 0
          /\ calls.train = calls.validate
    /\ (pc = "train" /\ train_ctx = "final") =>
          /\ model.trained_on = {}
          /\ model.steps = 0
          /\ optimizer.step = 0
          /\ n_calls = Len(study)
          /\ calls.train = Len(study) * k_inner
          /\ calls.validate = Len(study) * k_inner
          /\ calls.test = 0
    /\ pc = "test" =>
          /\ train_ctx = "final"
          /\ model.trained_on = OuterTrainSamples
          /\ model.steps = StepsOfTraining(OuterTrainSamples)
          /\ optimizer.step = StepsOfTraining(OuterTrainSamples)
          /\ calls.train = Len(study) * k_inner + 1
          /\ calls.test = 0

\* the final training of the second outer fold is about to start, after two
\* trials that trained the model
C14_Witness ==
    /\ pc = "train"
    /\ train_ctx = "final"
    /\ fold = 1
    /\ Len(study) = 2
    /\ calls.epochs > 0
    /\ model.steps = 0

\* C15: in every inner fold the parameters are fresh when the fold's
\* training begins, the training runs num_epochs epochs on the fold's
\* train_data, and the validation loss is computed after that training.
C15_InnerFoldResetTrainValidate ==
    /\ (pc = "train" /\ train_ctx = "inner") =>
          /\ model.trained_on = {}
          /\ model.steps = 0
          /\ loader_samples = train_samples
          /\ Len(inner_cv_loss) = fold_idx
    /\ (pc = "train_epoch" /\ train_ctx = "inner") =>
          /\ model.trained_on \subseteq train_samples
          /\ model.steps = ep * Len(DataLoader(SortedSeq(train_samples), BATCH_SIZE))
          /\ Len(inner_cv_loss) = fold_idx
    /\ pc = "validate" =>
          /\ train_ctx = "inner"
          /\ ep = num_epochs
          /\ model.trained_on = train_samples
          /\ model.steps = StepsOfTraining(train_samples)
          /\ Len(inner_cv_loss) = fold_idx

\* the training of the second inner fold of the second trial is about to
\* begin, on other samples than the first fold's, with fresh parameters
C15_Witness ==
    /\ pc = "train"
    /\ train_ctx = "inner"
    /\ Len(study) = 1
    /\ fold_idx = 1
    /\ calls.epochs > 0
    /\ model.steps = 0
    /\ num_epochs = 2

\* C16: when the training of an inner fold begins, no training state of the
\* earlier folds of the trial survives: the parameters are fresh and the
\* optimizer has taken no step.
C16_NoLeakAcrossInnerFolds ==
    (pc = "train" /\ train_ctx = "inner") =>
        /\ model.trained_on = {}
        /\ model.steps = 0
        /\ optimizer.step = 0

\* C17: validate and test leave the parameters of the model and the state
\* of the optimizer as they were before the call.
C17_EvaluationLeavesParameters ==
    [][(pc = "validate" \/ pc = "test") =>
          /\ model'.trained_on = model.trained_on
          /\ model'.steps = model.steps
          /\ optimizer' = optimizer]_vars

\* validate has returned in the second inner fold: the model and the
\* optimizer still hold the training that preceded it
C17_Witness ==
    /\ pc = "inner_fold"
    /\ fold_idx = 2
    /\ Len(inner_cv_loss) = 2
    /\ model.mode = "eval"
    /\ model.steps > 0
    /\ model.trained_on = train_samples
    /\ optimizer.step > model.steps

\* C18: an epoch of training runs only with the model in training mode, and
\* a pass of validate or test only with the model in evaluation mode,
\* whatever calls came before.
C18_ModeMatchesPass ==
    [][/\ (pc = "train_epoch" /\ ep' = ep + 1) =>
             /\ model.mode = "train"
             /\ model'.mode = "train"
       /\ (pc = "validate" \/ pc = "test") => model'.mode = "eval"]_vars

\* an epoch has run in the second inner fold, after the validation of the
\* first fold had put the model in evaluation mode
C18_Witness ==
    /\ pc = "train_epoch"
    /\ train_ctx = "inner"
    /\ fold_idx = 1
    /\ Len(inner_cv_loss) = 1
    /\ ep >= 1
    /\ model.mode = "train"

\* the run has ended, normally or by an exception
Terminated == pc \notin Running

\* C19: the run terminates, every statement executed moving the position or
\* the epoch counter on; every call of train that returns has run exactly
\* num_epochs epochs; an outer fold in which T trials completed has made
\* T * k_inner + 1 calls of train, T * k_inner calls of validate and one
\* call of test; a completed run whose folds completed R trials in all
\* (R = k_outer * T when T trials complete in each) has made
\* R * k_inner + k_outer calls of train, each of num_epochs epochs,
\* R * k_inner calls of validate and k_outer calls of test.
C19_TerminationAndCallCounts ==
    /\ <>[]Terminated
    /\ [][<<pc, ep>>' # <<pc, ep>>]_vars
    /\ [](pc \in {"validate", "test"} =>
             /\ ep = num_epochs
             /\ calls.epochs = calls.train * num_epochs)
    /\ []((pc = "outer_fold" /\ fold > 0) =>
             /\ calls.train = Len(study) * k_inner + 1
             /\ calls.epochs = calls.train * num_epochs
             /\ calls.validate = Len(study) * k_inner
             /\ calls.test = 1)
    /\ [](pc = "done" =>
             /\ fold = k_outer
             /\ run_calls.trials \in k_outer..(k_outer * N_TRIALS_USED)
             /\ run_calls.train = run_calls.trials * k_inner + k_outer
             /\ run_calls.epochs = run_calls.train * num_epochs
             /\ run_calls.validate = run_calls.trials * k_inner
             /\ run_calls.test = k_outer)

\* a run of two outer folds has completed with T = 2 trials of two inner
\* folds in each: 2 * (2 * 2 + 1) calls of train of two epochs each,
\* 2 * 2 * 2 calls of validate and 2 calls of test
C19_Witness ==
    /\ pc = "done"
    /\ k_outer = 2
    /\ k_inner = 2
    /\ num_epochs = 2
    /\ run_calls = [train |-> 10, validate |-> 8, test |-> 2, epochs |-> 20, trials |-> 4]

====
